---- MODULE Spec2Model ----
(***************************************************************************)
(* Model of src/app.py: the Edge Impulse -> Vela conversion pipeline       *)
(* (run_conversion), its helpers (parse_model_zip_name, safe_move,         *)
(* find_vela_output) and the Streamlit convert handler that calls it.      *)
(*                                                                         *)
(* Strings are TLA+ strings (sequences of characters); paths are strings   *)
(* with "/" separators.  The file system is a function from the path of   *)
(* every regular file to its content; a directory exists when some file    *)
(* lies below it.                                                          *)
(***************************************************************************)
EXTENDS Integers, Sequences, FiniteSets, TLC

VARIABLES
    pc,             \* position of the convert handler / run_conversion
    upload,         \* uploaded_file: [name, bytes]
    tmp,            \* TRUE while the TemporaryDirectory exists
    files,          \* path -> content of every file in a temporary directory
    model_name,     \* run_conversion's local model_name
    model_version,  \* run_conversion's local model_version
    vela_out,       \* run_conversion's local vela_original_output
    labels,         \* run_conversion's local labels
    ui,             \* what Streamlit has rendered: sequence of [level, text]
    ret,            \* how run_conversion ended: not yet, a path, None, a raise
    zip_bytes,      \* the handler's local zip_bytes
    offered,        \* TRUE once st.download_button was rendered
    steps,          \* history: the steps executed so far, in order
    vela,           \* history: what the vela process did, once it was run
    me,             \* which request the variables above belong to: 1 or 2
    peer            \* the same variables of a concurrent request, or Absent

vars == <<pc, upload, tmp, files, model_name, model_version, vela_out,
          labels, ui, ret, zip_bytes, offered, steps, vela, me, peer>>

(***************************************************************************)
(* Bounds of the model.                                                    *)
(***************************************************************************)
MaxAtoms == 2       \* atoms per filename segment in the parser's inputs
MaxLabels == 2      \* string literals in a generated header's initializer

(***************************************************************************)
(* String and path primitives (Python str / os.path / pathlib).            *)
(***************************************************************************)
endswith(s, suf) ==
    Len(s) >= Len(suf) /\ SubSeq(s, Len(s) - Len(suf) + 1, Len(s)) = suf

startswith(s, pre) ==
    Len(s) >= Len(pre) /\ SubSeq(s, 1, Len(pre)) = pre

\* sub occurs in s at (1-based) index i.
OccursAt(s, sub, i) ==
    i >= 1 /\ i + Len(sub) - 1 <= Len(s) /\ SubSeq(s, i, i + Len(sub) - 1) = sub

RECURSIVE find_from(_, _, _)
find_from(s, sub, i) ==
    IF i + Len(sub) - 1 > Len(s) THEN 0
    ELSE IF OccursAt(s, sub, i) THEN i
    ELSE find_from(s, sub, i + 1)

\* str.find: the lowest index of sub in s, 1-based; 0 when absent.
find(s, sub) == find_from(s, sub, 1)

RECURSIVE rfind_from(_, _, _)
rfind_from(s, sub, i) ==
    IF i < 1 THEN 0
    ELSE IF OccursAt(s, sub, i) THEN i
    ELSE rfind_from(s, sub, i - 1)

\* str.rfind: the highest index of sub in s, 1-based; 0 when absent.
rfind(s, sub) == rfind_from(s, sub, Len(s) - Len(sub) + 1)

\* os.path.basename: what follows the last "/".
basename(p) == SubSeq(p, rfind(p, "/") + 1, Len(p))

\* PurePath.stem: the final component without its last suffix.
stem_of(name) ==
    LET i == rfind(name, ".")
    IN  IF i > 1 /\ i < Len(name) THEN SubSeq(name, 1, i - 1) ELSE name

\* Path.__truediv__
Join(dir, name) == dir \o "/" \o name

(***************************************************************************)
(* Outcomes of a call: a value, or a raised exception.                     *)
(***************************************************************************)
Raise(type, msg) == [kind |-> "raise", type |-> type, msg |-> msg]

(***************************************************************************)
(* parse_model_zip_name                                                    *)
(***************************************************************************)
Sep == "-custom-"

\* base.split('-custom-', 1) for a base that contains the separator, but
\* cutting at the LAST occurrence (what rsplit would do).
split_last(base) ==
    LET i == rfind(base, Sep)
    IN  <<SubSeq(base, 1, i - 1), SubSeq(base, i + Len(Sep), Len(base))>>

\* base.split('-custom-', 1) for a base that contains the separator.
split_first(base) ==
    LET i == find(base, Sep)
    IN  <<SubSeq(base, 1, i - 1), SubSeq(base, i + Len(Sep), Len(base))>>

\* The segment test with the version check dropped.
segments_empty_name_only(modelname, version) == modelname = ""

\* `not modelname or not version`
segments_empty(modelname, version) == modelname = "" \/ version = ""

parse_model_zip_name(zip_path) ==
    LET name == basename(zip_path)
        base == SubSeq(name, 1, Len(name) - 4)
        parts == split_first(base)
    IN  IF ~endswith(name, ".zip")
        THEN Raise("ValueError", "Zip file must end with .zip")
        ELSE IF find(base, Sep) = 0
        THEN Raise("ValueError", "Filename must contain '-custom-'")
        ELSE IF segments_empty(parts[1], parts[2])
        THEN Raise("ValueError", "Invalid filename segments before/after -custom-")
        ELSE [kind |-> "ok", modelname |-> parts[1], version |-> parts[2]]

(***************************************************************************)
(* The file system inside the temporary directory.                         *)
(***************************************************************************)
Data(s) == [data |-> s]
Zip(members) == [zip |-> members]
IsZip(c) == "zip" \in DOMAIN c

NoFiles == [p \in {} |-> Data("")]

\* Path.exists: a regular file, or a directory holding one.
exists(fs, p) ==
    p \in DOMAIN fs \/ \E q \in DOMAIN fs : startswith(q, p \o "/")

WriteFile(fs, p, c) ==
    [q \in DOMAIN fs \cup {p} |-> IF q = p THEN c ELSE fs[q]]

RemoveFile(fs, p) == [q \in DOMAIN fs \ {p} |-> fs[q]]

\* shutil.rmtree(dir): every file below dir is gone.
rmtree(fs, dir) ==
    [q \in {p \in DOMAIN fs : ~startswith(p, dir \o "/")} |-> fs[q]]

\* One directory handed to every request.
mkdtemp_reused(r) == "/tmp/tmpdir"

\* tempfile.mkdtemp for request r: a new directory, of a name no other
\* request has.
mkdtemp(r) == IF r = 1 THEN "/tmp/tmpdir" ELSE "/tmp/tmpxyz"

temp_dir == mkdtemp(me)

(***************************************************************************)
(* safe_move                                                               *)
(***************************************************************************)
\* A copy in place of the move: the source stays where it was.
safe_copy(fs, src, dst) == WriteFile(fs, dst, fs[src])

\* dst.parent.mkdir(...) creates only directories; dst is unlinked when it
\* exists, then src is renamed to dst.
safe_move(fs, src, dst) ==
    LET moved == fs[src]
        cleared == IF dst \in DOMAIN fs THEN RemoveFile(fs, dst) ELSE fs
    IN  WriteFile(RemoveFile(cleared, src), dst, moved)

(***************************************************************************)
(* find_vela_output                                                        *)
(***************************************************************************)
\* The candidate list with the first two names exchanged.
possible_names_legacy_first(work_dir, stem) ==
    << Join(work_dir, "MOD00001.tfl"),
       Join(work_dir, stem \o "_vela.tflite"),
       Join(work_dir, "output.tflite") >>

\* possible_names, in the order the loop tries them.
possible_names(work_dir, stem) ==
    << Join(work_dir, stem \o "_vela.tflite"),
       Join(work_dir, "MOD00001.tfl"),
       Join(work_dir, "output.tflite") >>

OverwriteWarning ==
    [level |-> "warning",
     text |-> "Could not find a distinct Vela output file. Assuming input was overwritten."]

\* No fallback: without a candidate the lookup raises, whether the original
\* is there or not.
overwrite_fallback_none(fs, original_path, tried) ==
    [kind |-> "raise", type |-> "FileNotFoundError",
     msg |-> "Could not find Vela output file", tried |-> tried]

\* The fallback returning the original without st.warning.
overwrite_fallback_silent(fs, original_path, tried) ==
    IF exists(fs, original_path)
    THEN [kind |-> "ok", path |-> original_path, warnings |-> <<>>]
    ELSE [kind |-> "raise", type |-> "FileNotFoundError",
          msg |-> "Could not find Vela output file", tried |-> tried]

\* What follows the candidate loop: the original input, with a warning, or
\* FileNotFoundError naming the candidates.
overwrite_fallback(fs, original_path, tried) ==
    IF exists(fs, original_path)
    THEN [kind |-> "ok", path |-> original_path, warnings |-> <<OverwriteWarning>>]
    ELSE [kind |-> "raise", type |-> "FileNotFoundError",
          msg |-> "Could not find Vela output file", tried |-> tried]

find_vela_output(fs, work_dir, original_tflite_name) ==
    LET names == possible_names(work_dir, stem_of(original_tflite_name))
        hits == {i \in 1..Len(names) : exists(fs, names[i])}
        first == CHOOSE i \in hits : \A j \in hits : i <= j
    IN  IF hits # {}
        THEN [kind |-> "ok", path |-> names[first], warnings |-> <<>>]
        ELSE overwrite_fallback(fs, Join(work_dir, original_tflite_name), names)

(***************************************************************************)
(* Label extraction: the two regular expressions of run_conversion.        *)
(***************************************************************************)
CharAt(s, i) == SubSeq(s, i, i)

\* \s of Python's re on str.
IsSpace(c) == c \in {" ", "\t", "\n", "\r", "\f"}

RECURSIVE skip_spaces(_, _)
\* The index after the longest run of whitespace starting at i.
skip_spaces(s, i) ==
    IF i <= Len(s) /\ IsSpace(CharAt(s, i)) THEN skip_spaces(s, i + 1) ELSE i

DeclPrefix == "const char*"
DeclName == "ei_classifier_inferencing_categories"

\* For '=' at index p: the index of the '{' that \s*\{ reaches, when a "};"
\* follows it; 0 otherwise.
brace_after(s, p) ==
    LET q == skip_spaces(s, p + 1)
    IN  IF q <= Len(s) /\ CharAt(s, q) = "{" /\ find_from(s, "};", q + 1) # 0
        THEN q ELSE 0

RECURSIVE first_initializer(_, _)
\* .*?=\s*\{ from index p on: the '{' after the first '=' that lets the rest
\* of the pattern match; 0 when none does.
first_initializer(s, p) ==
    IF p > Len(s) THEN 0
    ELSE IF CharAt(s, p) = "=" /\ brace_after(s, p) # 0 THEN brace_after(s, p)
    ELSE first_initializer(s, p + 1)

\* The pattern anchored at index i: the '{' of the initializer, or 0.
match_at(s, i) ==
    IF ~OccursAt(s, DeclPrefix, i) THEN 0
    ELSE LET j == skip_spaces(s, i + Len(DeclPrefix))
         IN  IF ~OccursAt(s, DeclName, j) THEN 0
             ELSE first_initializer(s, j + Len(DeclName))

RECURSIVE search_from(_, _)
search_from(s, i) ==
    IF i > Len(s) THEN 0
    ELSE IF match_at(s, i) # 0 THEN match_at(s, i)
    ELSE search_from(s, i + 1)

\* re.search(r'const char\*\s*ei_classifier_inferencing_categories.*?=\s*\{(.*?)\};',
\*           content, re.DOTALL): [found, body], body being group 1.
re_search_categories(content) ==
    LET q == search_from(content, 1)
    IN  IF q = 0 THEN [found |-> FALSE, body |-> ""]
        ELSE [found |-> TRUE,
              body |-> SubSeq(content, q + 1, find_from(content, "};", q + 1) - 1)]

RECURSIVE findall_from(_, _)
findall_from(body, k) ==
    IF k > Len(body) THEN <<>>
    ELSE IF CharAt(body, k) # "\"" THEN findall_from(body, k + 1)
    ELSE LET m == find_from(body, "\"", k + 1)
         IN  IF m > k + 1
             THEN <<SubSeq(body, k + 1, m - 1)>> \o findall_from(body, m + 1)
             ELSE findall_from(body, k + 1)

RECURSIVE findall_star_from(_, _)
findall_star_from(body, k) ==
    IF k > Len(body) THEN <<>>
    ELSE IF CharAt(body, k) # "\"" THEN findall_star_from(body, k + 1)
    ELSE LET m == find_from(body, "\"", k + 1)
         IN  IF m # 0
             THEN <<SubSeq(body, k + 1, m - 1)>> \o findall_star_from(body, m + 1)
             ELSE <<>>

\* The pattern with * in place of +: an empty pair of quotes gives a label.
findall_quoted_star(body) == findall_star_from(body, 1)

\* re.findall(r'\"([^\"]+)\"', body)
findall_quoted(body) == findall_from(body, 1)

\* The labels run_conversion derives from the header text.
extract_labels(content) ==
    LET match == re_search_categories(content)
    IN  IF match.found THEN findall_quoted(match.body) ELSE <<>>

RECURSIVE join(_, _)
\* sep.join(items)
join(items, sep) ==
    IF Len(items) = 0 THEN ""
    ELSE IF Len(items) = 1 THEN items[1]
    ELSE items[1] \o sep \o join(Tail(items), sep)

(***************************************************************************)
(* Inputs: what a caller can upload and what the external compiler can do. *)
(***************************************************************************)
Quote(s) == "\"" \o s \o "\""

LabelWords == {"cat", "dog"}

LabelLists == UNION {[1..n -> LabelWords] : n \in 0..MaxLabels}

\* A generated model_variables.h declaring the given labels.
HeaderWith(ls) ==
    "const char* ei_classifier_inferencing_categories[] = { "
        \o join([i \in 1..Len(ls) |-> Quote(ls[i])], ", ") \o " };\n"

HeaderTexts ==
    {HeaderWith(ls) : ls \in LabelLists} \cup {"#define EI_CLASSIFIER_LABEL_COUNT 2\n"}

\* Headers for the label extraction: the declaration written in several
\* ways, around literals that are plain, empty or hold an escaped quote,
\* separated on one line or over several; and headers without it.
LiteralWords == {"cat", "", "a\\\"b"}

LiteralLists == UNION {[1..n -> LiteralWords] : n \in 0..MaxLabels}

Declarators ==
    {"const char* ei_classifier_inferencing_categories[] = {",
     "const char* ei_classifier_inferencing_categories[2] =\n{",
     "const char *ei_classifier_inferencing_categories[] = {"}

LiteralSeparators == {", ", ",\n    "}

HeaderOf(decl, ls, sep) ==
    "#pragma once\n" \o decl \o " "
        \o join([i \in 1..Len(ls) |-> Quote(ls[i])], sep) \o " };\n"

LabelHeaders ==
    {HeaderOf(d, ls, sep) : d \in Declarators, ls \in LiteralLists, sep \in LiteralSeparators}
        \cup {"#define EI_CLASSIFIER_LABEL_COUNT 2\n",
              "const char* ei_classifier_name = \"cat\";\n"}

TfliteName == "trained.tflite"
VarsHName == "model-parameters/model_variables.h"

\* Names an uploaded archive may hold: the two required inputs and entries
\* that collide with names the pipeline itself uses.
MemberNames ==
    {TfliteName, VarsHName, "Manifest/extra.txt", "Manifest.zip", "MOD00001.tfl",
     "m-custom-1_vela.tflite"}

Archive(S, header) ==
    [m \in S |-> IF m = VarsHName THEN Data(header) ELSE Data("upload:" \o m)]

UploadNames == {"m-custom-1.zip", "model.zip"}

Uploads ==
    {[name |-> n, bytes |-> Zip(Archive(S, h))] :
        n \in UploadNames, S \in SUBSET MemberNames, h \in HeaderTexts}
    \cup {[name |-> "m-custom-1.zip", bytes |-> Data("not a zip file")]}

LabelUploads ==
    {[name |-> "m-custom-1.zip", bytes |-> Zip(Archive({TfliteName, VarsHName}, h))] :
        h \in LabelHeaders}

\* Filenames for the parser: segments built from atoms that contain, start
\* or end the separator, around a separator or not, with several suffixes.
Atoms == {"a", "-custom-", "-custom", "custom-"}

RECURSIVE Segments(_)
Segments(n) ==
    IF n = 0 THEN {""}
    ELSE Segments(n - 1) \cup {s \o a : s \in Segments(n - 1), a \in Atoms}

Suffixes == {".zip", ".zi", ""}

ParseNames ==
    ({A \o Sep \o B \o e : A \in Segments(MaxAtoms), B \in Segments(MaxAtoms), e \in Suffixes}
     \cup {A \o e : A \in Segments(MaxAtoms), e \in Suffixes}
     \cup {"a-custom-b-custom-c.zip", "widget-custom-v3.zip"}) \ {""}

ParseUploads ==
    {[name |-> n,
      bytes |-> Zip(Archive({TfliteName, VarsHName}, HeaderWith(<<"cat", "dog">>)))] :
        n \in ParseNames}

\* What the vela process may do: exit 0 having written any of the names it
\* is known to use and kept, overwritten or removed its input; exit non-zero;
\* not be found; or run into the timeout.
VelaOutputNames == {"trained_vela.tflite", "MOD00001.tfl", "output.tflite"}

VelaOutcomes ==
    {[rc |-> "ok", writes |-> W, input |-> i, stderr |-> e] :
        W \in SUBSET VelaOutputNames, i \in {"kept", "overwritten", "deleted"},
        e \in BOOLEAN}
    \cup {[rc |-> r, writes |-> {}, input |-> "kept", stderr |-> TRUE] :
        r \in {"nonzero", "missing", "timeout"}}

\* With two requests in flight the compiler is taken to do one of three
\* things: write trained_vela.tflite, write nothing, or exit non-zero.
ParVelaOutcomes ==
    {[rc |-> "ok", writes |-> {"trained_vela.tflite"}, input |-> "kept", stderr |-> FALSE],
     [rc |-> "ok", writes |-> {}, input |-> "kept", stderr |-> FALSE],
     [rc |-> "nonzero", writes |-> {}, input |-> "kept", stderr |-> TRUE]}

\* Uploads of two concurrent requests: two archives of the same filename
\* and different content, one whose name is refused, one without the header.
ParArchive(S, tag, ls) ==
    [m \in S |-> IF m = VarsHName THEN Data(HeaderWith(ls)) ELSE Data("upload:" \o tag)]

ParUploads ==
    {[name |-> "m-custom-1.zip",
      bytes |-> Zip(ParArchive({TfliteName, VarsHName}, "A", <<"cat">>))],
     [name |-> "m-custom-1.zip",
      bytes |-> Zip(ParArchive({TfliteName, VarsHName}, "B", <<"dog", "cat">>))],
     [name |-> "m-custom-1.zip", bytes |-> Zip(ParArchive({TfliteName}, "C", <<>>))],
     [name |-> "model.zip",
      bytes |-> Zip(ParArchive({TfliteName, VarsHName}, "D", <<"cat">>))]}

(***************************************************************************)
(* State of one press of the Convert button.                               *)
(***************************************************************************)
None == [kind |-> "None"]
Running == [kind |-> "running"]
NotRun == [rc |-> "not_run"]
Absent == [pc |-> "absent"]

InitWith(U) ==
    /\ upload \in U
    /\ pc = "start"
    /\ tmp = FALSE
    /\ files = NoFiles
    /\ model_name = ""
    /\ model_version = ""
    /\ vela_out = ""
    /\ labels = <<>>
    /\ ui = <<>>
    /\ ret = Running
    /\ zip_bytes = None
    /\ offered = FALSE
    /\ steps = <<>>
    /\ vela = NotRun
    /\ me = 1
    /\ peer = Absent

Init == InitWith(Uploads)

InitParse == InitWith(ParseUploads)

InitLabels == InitWith(LabelUploads)

\* The variables of a request that has not begun.
Fresh(u) ==
    [pc |-> "start", upload |-> u, tmp |-> FALSE, model_name |-> "",
     model_version |-> "", vela_out |-> "", labels |-> <<>>, ui |-> <<>>,
     ret |-> Running, zip_bytes |-> None, offered |-> FALSE, steps |-> <<>>,
     vela |-> NotRun]

\* Two sessions have pressed Convert.
InitPar ==
    /\ upload \in ParUploads
    /\ pc = "start"
    /\ tmp = FALSE
    /\ files = NoFiles
    /\ model_name = ""
    /\ model_version = ""
    /\ vela_out = ""
    /\ labels = <<>>
    /\ ui = <<>>
    /\ ret = Running
    /\ zip_bytes = None
    /\ offered = FALSE
    /\ steps = <<>>
    /\ vela = NotRun
    /\ me = 1
    /\ peer \in {Fresh(u) : u \in ParUploads}

\* Paths run_conversion computes.
uploaded_zip_path == Join(temp_dir, upload.name)
\* The container name joined with a bare dash.
container_name_dash == model_name \o "-" \o model_version

container_name == model_name \o "-custom-" \o model_version
work_dir == Join(Join(temp_dir, "work"), container_name)
tflite_path == Join(work_dir, "trained.tflite")
vars_h_path == Join(Join(work_dir, "model-parameters"), "model_variables.h")
vela_final_path == Join(work_dir, container_name \o "_vela.tflite")
labels_txt_path == Join(work_dir, "labels.txt")
manifest_dir == Join(work_dir, "Manifest")
final_zip_path == Join(work_dir, "Manifest") \o ".zip"

Say(level, text) == [level |-> level, text |-> text]

\* A raise inside the with block: the block is left with the exception.
Fail(exc, step) ==
    /\ ret' = exc
    /\ pc' = "exiting"
    /\ steps' = Append(steps, step)

(***************************************************************************)
(* run_conversion, one action per numbered step of the function.           *)
(***************************************************************************)
\* with tempfile.TemporaryDirectory() ...: f.write(uploaded_file.getbuffer())
SaveUpload ==
    /\ pc = "start"
    /\ tmp' = TRUE
    /\ files' = WriteFile(files, uploaded_zip_path, upload.bytes)
    /\ pc' = "saved"
    /\ steps' = Append(steps, "SaveUpload")
    /\ UNCHANGED <<me, peer, vela, upload, model_name, model_version, vela_out, labels, ui, ret,
                   zip_bytes, offered>>

\* parse_model_zip_name(...), container_name, work_dir.mkdir(...)
ParseName ==
    /\ pc = "saved"
    /\ LET r == parse_model_zip_name(uploaded_zip_path)
       IN  /\ ui' = Append(ui, Say("write", "Processing " \o upload.name))
           /\ IF r.kind = "raise"
              THEN /\ Fail(r, "ParseName")
                   /\ UNCHANGED <<model_name, model_version>>
              ELSE /\ model_name' = r.modelname
                   /\ model_version' = r.version
                   /\ pc' = "parsed"
                   /\ steps' = Append(steps, "ParseName")
                   /\ UNCHANGED ret
    /\ UNCHANGED <<me, peer, vela, upload, tmp, files, vela_out, labels, zip_bytes, offered>>

\* ZipFile.extractall(path): every member is written below path, replacing
\* what is there.
extractall(fs, dir, members) ==
    LET new == {Join(dir, m) : m \in DOMAIN members}
    IN  [q \in DOMAIN fs \cup new |->
            IF q \in new
            THEN members[CHOOSE m \in DOMAIN members : Join(dir, m) = q]
            ELSE fs[q]]

\* with zipfile.ZipFile(uploaded_zip_path, 'r') as z: z.extractall(work_dir)
Extract ==
    /\ pc = "parsed"
    /\ LET z == files[uploaded_zip_path]
       IN  IF ~IsZip(z)
           THEN /\ Fail(Raise("BadZipFile", "File is not a zip file"), "Extract")
                /\ UNCHANGED files
           ELSE /\ files' = extractall(files, work_dir, z.zip)
                /\ pc' = "extracted"
                /\ steps' = Append(steps, "Extract")
                /\ UNCHANGED ret
    /\ UNCHANGED <<me, peer, vela, upload, tmp, model_name, model_version, vela_out, labels, ui,
                   zip_bytes, offered>>

\* The presence checks with the header's check left out.
check_required_tflite_only(fs, tflite, vars_h) ==
    IF ~exists(fs, tflite)
    THEN Raise("FileNotFoundError", "trained.tflite not found")
    ELSE [kind |-> "ok"]

\* if not tflite_path.exists(): raise ...; if not vars_h_path.exists(): raise ...
check_required(fs, tflite, vars_h) ==
    IF ~exists(fs, tflite)
    THEN Raise("FileNotFoundError", "trained.tflite not found")
    ELSE IF ~exists(fs, vars_h)
    THEN Raise("FileNotFoundError", "model_variables.h not found")
    ELSE [kind |-> "ok"]

Validate ==
    /\ pc = "extracted"
    /\ LET r == check_required(files, tflite_path, vars_h_path)
       IN  IF r.kind = "raise"
           THEN /\ Fail(r, "Validate")
                /\ UNCHANGED ui
           ELSE /\ ui' = Append(ui, Say("write",
                        "File unzipped. Found trained.tflite and model_variables.h."))
                /\ pc' = "validated"
                /\ steps' = Append(steps, "Validate")
                /\ UNCHANGED ret
    /\ UNCHANGED <<me, peer, vela, upload, tmp, files, model_name, model_version, vela_out, labels,
                   zip_bytes, offered>>

\* The files of output_dir after a vela run that exited 0.
vela_writes(fs, dir, input, o) ==
    LET kept == CASE o.input = "kept" -> fs
                  [] o.input = "overwritten" -> WriteFile(fs, input, Data("vela"))
                  [] o.input = "deleted" -> RemoveFile(fs, input)
        new == {Join(dir, w) : w \in o.writes}
    IN  [q \in DOMAIN kept \cup new |-> IF q \in new THEN Data("vela") ELSE kept[q]]

VelaFailedSays ==
    << Say("error", "Vela conversion FAILED. Return code: nonzero"),
       Say("error", "Stdout:"), Say("error", "Stderr:") >>

VelaOkSays(o) ==
    <<Say("code", "stdout")>>
        \o (IF o.stderr THEN <<Say("warning", "Vela stderr:")>> ELSE <<>>)
        \o <<Say("write", "Vela conversion successful.")>>

\* The handlers around subprocess.run, with the exit code not checked.
after_vela_unchecked(o) ==
    CASE o.rc \in {"ok", "nonzero"} ->
            [pc |-> "compiled", ret |-> Running, says |-> VelaOkSays(o)]
      [] o.rc = "missing" ->
            [pc |-> "exiting", ret |-> None,
             says |-> <<Say("error", "Vela command not found. This app is likely not deployed correctly.")>>]
      [] o.rc = "timeout" ->
            [pc |-> "exiting",
             ret |-> Raise("TimeoutExpired", "Command 'vela' timed out after 120 seconds"),
             says |-> <<>>]

\* The handlers around subprocess.run with one report for both caught
\* exceptions: a missing binary is reported as a failed conversion.
after_vela_one_report(o) ==
    CASE o.rc = "ok" ->
            [pc |-> "compiled", ret |-> Running, says |-> VelaOkSays(o)]
      [] o.rc \in {"nonzero", "missing"} ->
            [pc |-> "exiting", ret |-> None, says |-> VelaFailedSays]
      [] o.rc = "timeout" ->
            [pc |-> "exiting",
             ret |-> Raise("TimeoutExpired", "Command 'vela' timed out after 120 seconds"),
             says |-> <<>>]

\* try: subprocess.run(cmd, ..., check=True, timeout=120) except
\* CalledProcessError: ... return None; except FileNotFoundError: ... return
\* None.  TimeoutExpired has no handler and leaves the function.
after_vela(o) ==
    CASE o.rc = "ok" ->
            [pc |-> "compiled", ret |-> Running, says |-> VelaOkSays(o)]
      [] o.rc = "nonzero" ->
            [pc |-> "exiting", ret |-> None, says |-> VelaFailedSays]
      [] o.rc = "missing" ->
            [pc |-> "exiting", ret |-> None,
             says |-> <<Say("error", "Vela command not found. This app is likely not deployed correctly.")>>]
      [] o.rc = "timeout" ->
            [pc |-> "exiting",
             ret |-> Raise("TimeoutExpired", "Command 'vela' timed out after 120 seconds"),
             says |-> <<>>]

VelaChoices == IF peer = Absent THEN VelaOutcomes ELSE ParVelaOutcomes

RunVela ==
    /\ pc = "validated"
    /\ \E o \in VelaChoices :
        LET a == after_vela(o)
        IN  /\ files' = IF o.rc = "ok"
                        THEN vela_writes(files, work_dir, tflite_path, o)
                        ELSE files
            /\ ui' = Append(ui, Say("write", "Running Vela conversion...")) \o a.says
            /\ pc' = a.pc
            /\ ret' = a.ret
            /\ vela' = o
    /\ steps' = Append(steps, "RunVela")
    /\ UNCHANGED <<me, peer, upload, tmp, model_name, model_version, vela_out, labels,
                   zip_bytes, offered>>

\* vela_original_output = find_vela_output(work_dir, tflite_path.name)
ResolveOutput ==
    /\ pc = "compiled"
    /\ LET r == find_vela_output(files, work_dir, basename(tflite_path))
       IN  IF r.kind = "raise"
           THEN /\ Fail(r, "ResolveOutput")
                /\ UNCHANGED <<vela_out, ui>>
           ELSE /\ vela_out' = r.path
                /\ ui' = ui \o r.warnings
                /\ pc' = "resolved"
                /\ steps' = Append(steps, "ResolveOutput")
                /\ UNCHANGED ret
    /\ UNCHANGED <<me, peer, vela, upload, tmp, files, model_name, model_version, labels,
                   zip_bytes, offered>>

\* safe_move(vela_original_output, vela_final_path)
MoveOutput ==
    /\ pc = "resolved"
    /\ files' = safe_move(files, vela_out, vela_final_path)
    /\ ui' = Append(ui, Say("write", "Vela model saved as: " \o basename(vela_final_path)))
    /\ pc' = "moved"
    /\ steps' = Append(steps, "MoveOutput")
    /\ UNCHANGED <<me, peer, vela, upload, tmp, model_name, model_version, vela_out, labels, ret,
                   zip_bytes, offered>>

\* 4. Extract labels
ExtractLabels ==
    /\ pc = "moved"
    /\ labels' = extract_labels(files[vars_h_path].data)
    /\ IF labels' = <<>>
       THEN Fail(Raise("RuntimeError", "No labels found in model_variables.h."),
                 "ExtractLabels")
       ELSE /\ pc' = "labelled"
            /\ steps' = Append(steps, "ExtractLabels")
            /\ UNCHANGED ret
    /\ UNCHANGED <<me, peer, vela, upload, tmp, files, model_name, model_version, vela_out, ui,
                   zip_bytes, offered>>

\* with open(labels_txt_path, 'w') as f: f.write('\n'.join(labels))
WriteLabels ==
    /\ pc = "labelled"
    /\ files' = WriteFile(files, labels_txt_path, Data(join(labels, "\n")))
    /\ ui' = Append(ui, Say("write", "Labels extracted"))
    /\ pc' = "labels_written"
    /\ steps' = Append(steps, "WriteLabels")
    /\ UNCHANGED <<me, peer, vela, upload, tmp, model_name, model_version, vela_out, labels, ret,
                   zip_bytes, offered>>

\* manifest_dir.mkdir(parents=True, exist_ok=True); the two shutil.copy2 calls
CopyManifest ==
    /\ pc = "labels_written"
    /\ files' = WriteFile(
                    WriteFile(files, Join(manifest_dir, basename(vela_final_path)),
                              files[vela_final_path]),
                    Join(manifest_dir, "labels.txt"), files[labels_txt_path])
    /\ pc' = "copied"
    /\ steps' = Append(steps, "CopyManifest")
    /\ UNCHANGED <<me, peer, vela, upload, tmp, model_name, model_version, vela_out, labels, ui,
                   ret, zip_bytes, offered>>

\* shutil.make_archive(base, 'zip', root_dir=root_dir, base_dir=base_dir): the
\* archive of every file below root_dir/base_dir, named relative to root_dir.
\* The zip archiver is the one that takes root_dir itself (Python 3.10.6 and
\* later) and leaves the working directory of the process alone.
make_archive(fs, root_dir, base_dir) ==
    LET below == {q \in DOMAIN fs : startswith(q, Join(root_dir, base_dir) \o "/")}
        rel(q) == SubSeq(q, Len(root_dir) + 2, Len(q))
    IN  Zip([m \in {rel(q) : q \in below} |-> fs[Join(root_dir, m)]])

\* make_archive, the existence check of final_zip_path, return final_zip_path
ZipManifest ==
    /\ pc = "copied"
    /\ files' = WriteFile(files, final_zip_path, make_archive(files, work_dir, "Manifest"))
    /\ IF ~exists(files', final_zip_path)
       THEN /\ Fail(Raise("FileNotFoundError", "Failed to create Manifest.zip"),
                    "ZipManifest")
            /\ UNCHANGED ui
       ELSE /\ ui' = Append(ui, Say("success", "Manifest.zip created successfully!"))
            /\ ret' = [kind |-> "path", path |-> final_zip_path]
            /\ pc' = "exiting"
            /\ steps' = Append(steps, "ZipManifest")
    /\ UNCHANGED <<me, peer, vela, upload, tmp, model_name, model_version, vela_out, labels,
                   zip_bytes, offered>>

\* TemporaryDirectory.__exit__ that keeps the directory when an exception
\* leaves the block.
cleanup_on_return_only(fs, r) ==
    IF r.kind = "raise" THEN [tmp |-> TRUE, files |-> fs]
    ELSE [tmp |-> FALSE, files |-> rmtree(fs, temp_dir)]

\* TemporaryDirectory.__exit__: the directory and all it holds are removed,
\* however the block was left.
cleanup(fs, r) == [tmp |-> FALSE, files |-> rmtree(fs, temp_dir)]

\* Leaving the with block: by return or by an exception.
TemporaryDirectoryExit ==
    /\ pc = "exiting"
    /\ tmp' = cleanup(files, ret).tmp
    /\ files' = cleanup(files, ret).files
    /\ pc' = "returned"
    /\ steps' = Append(steps, "Exit")
    /\ UNCHANGED <<me, peer, vela, upload, model_name, model_version, vela_out, labels, ui, ret,
                   zip_bytes, offered>>

(***************************************************************************)
(* The Convert button's handler, after run_conversion has ended.           *)
(***************************************************************************)
\* final_zip_path of the handler: the returned path, or None.
handler_path_set == ret.kind = "path"

\* try: final_zip_path = run_conversion(...); if final_zip_path and
\* final_zip_path.exists(): zip_bytes = f.read()
\* except Exception as e: st.error(f"An error occurred: {e}") ...
HandlerRead ==
    /\ pc = "returned"
    /\ ui' = IF ret.kind = "raise"
             THEN Append(ui, Say("error", "An error occurred: " \o ret.msg))
             ELSE ui
    /\ zip_bytes' = IF handler_path_set /\ exists(files, ret.path)
                    THEN files[ret.path] ELSE zip_bytes
    /\ pc' = "read"
    /\ steps' = Append(steps, "HandlerRead")
    /\ UNCHANGED <<me, peer, vela, upload, tmp, files, model_name, model_version, vela_out, labels,
                   ret, offered>>

\* if final_zip_path and os.path.exists(final_zip_path): zip_bytes = f.read()
\* if zip_bytes: st.download_button(...); os.unlink(final_zip_path)
HandlerOffer ==
    /\ pc = "read"
    /\ zip_bytes' = IF handler_path_set /\ exists(files, ret.path)
                    THEN files[ret.path] ELSE zip_bytes
    /\ offered' = (zip_bytes' # None)
    /\ files' = IF zip_bytes' # None /\ handler_path_set /\ ret.path \in DOMAIN files
                THEN RemoveFile(files, ret.path) ELSE files
    /\ pc' = "done"
    /\ steps' = Append(steps, "HandlerOffer")
    /\ UNCHANGED <<me, peer, vela, upload, tmp, model_name, model_version, vela_out, labels, ui, ret>>

Next ==
    \/ SaveUpload
    \/ ParseName
    \/ Extract
    \/ Validate
    \/ RunVela
    \/ ResolveOutput
    \/ MoveOutput
    \/ ExtractLabels
    \/ WriteLabels
    \/ CopyManifest
    \/ ZipManifest
    \/ TemporaryDirectoryExit
    \/ HandlerRead
    \/ HandlerOffer

Spec == Init /\ [][Next]_vars

\* The parser exercised on its own: the request up to the parsed name, and
\* the way out when the name is refused.
NextParse ==
    \/ SaveUpload
    \/ ParseName
    \/ TemporaryDirectoryExit
    \/ HandlerRead
    \/ HandlerOffer

SpecParse == InitParse /\ [][NextParse]_vars

\* The pipeline run on the headers written for the label extraction.
SpecLabels == InitLabels /\ [][Next]_vars

\* The host runs the script of each session on its own thread: the other
\* request takes the next step.  The variables of the two requests change
\* places; the file system is the one they share.
Switch ==
    /\ peer # Absent
    /\ me' = 3 - me
    /\ peer' = [pc |-> pc, upload |-> upload, tmp |-> tmp, model_name |-> model_name,
                model_version |-> model_version, vela_out |-> vela_out,
                labels |-> labels, ui |-> ui, ret |-> ret, zip_bytes |-> zip_bytes,
                offered |-> offered, steps |-> steps, vela |-> vela]
    /\ pc' = peer.pc
    /\ upload' = peer.upload
    /\ tmp' = peer.tmp
    /\ model_name' = peer.model_name
    /\ model_version' = peer.model_version
    /\ vela_out' = peer.vela_out
    /\ labels' = peer.labels
    /\ ui' = peer.ui
    /\ ret' = peer.ret
    /\ zip_bytes' = peer.zip_bytes
    /\ offered' = peer.offered
    /\ steps' = peer.steps
    /\ vela' = peer.vela
    /\ UNCHANGED files

NextPar ==
    \/ SaveUpload
    \/ ParseName
    \/ Extract
    \/ Validate
    \/ RunVela
    \/ ResolveOutput
    \/ MoveOutput
    \/ ExtractLabels
    \/ WriteLabels
    \/ CopyManifest
    \/ ZipManifest
    \/ TemporaryDirectoryExit
    \/ HandlerRead
    \/ HandlerOffer
    \/ Switch

\* Two requests, their steps interleaved in every order.
SpecPar == InitPar /\ [][NextPar]_vars

(***************************************************************************)
(* Properties.                                                             *)
(***************************************************************************)
Did(step) == \E i \in 1..Len(steps) : steps[i] = step
LastStep == IF steps = <<>> THEN "" ELSE steps[Len(steps)]
Returned == pc \in {"returned", "read", "done"}
Succeeded == ret.kind = "path"
Members == IF IsZip(upload.bytes) THEN DOMAIN upload.bytes.zip ELSE {}

PipelineOrder ==
    << "SaveUpload", "ParseName", "Extract", "Validate", "RunVela", "ResolveOutput",
       "MoveOutput", "ExtractLabels", "WriteLabels", "CopyManifest", "ZipManifest" >>
HandlerOrder == << "Exit", "HandlerRead", "HandlerOffer" >>
LaterStages ==
    {"ResolveOutput", "MoveOutput", "ExtractLabels", "WriteLabels", "CopyManifest",
     "ZipManifest"}
PipelineSteps(s) ==
    SelectSeq(s, LAMBDA x : \E i \in 1..Len(PipelineOrder) : PipelineOrder[i] = x)

\* C1: on every run that completes all stages, the Manifest.zip that
\* run_conversion returned still exists when the handler tests and opens it,
\* so the handler holds its bytes and offers the download.
C1_CallerReadsArchive ==
    /\ (pc = "returned" /\ Succeeded) => (tmp /\ exists(files, ret.path))
    /\ (pc = "done" /\ Succeeded) => (zip_bytes # None /\ offered)

\* C2: once run_conversion has returned or raised, in whatever way it ended,
\* the temporary directory and everything in it is gone.
C2_NoWorkingAreaOutlivesRequest ==
    Returned => (~tmp /\ DOMAIN files = {})

C2_Witness ==
    pc = "returned" /\ ret.kind = "raise" /\ ret.type = "TimeoutExpired"

\* C3 as stated: after a non-zero exit of the compiler no later stage runs,
\* no Manifest.zip exists in any later state, and the directory is torn down.
C3_NoManifestZipAfterCompilerFailure ==
    vela.rc = "nonzero" =>
        /\ \A st \in LaterStages : ~Did(st)
        /\ ~exists(files, final_zip_path)
        /\ Returned => ~tmp

\* C3 as amended: after a non-zero exit of the compiler the pipeline halts at
\* the compilation stage (no later stage runs, run_conversion returns None),
\* the pipeline creates no Manifest.zip (a file of that name is there only
\* when the upload held one, unchanged, and only until teardown), and the
\* directory is torn down.
C3_CompilerFailureHalts ==
    vela.rc = "nonzero" =>
        /\ \A st \in LaterStages : ~Did(st)
        /\ PipelineSteps(steps)[Len(PipelineSteps(steps))] = "RunVela"
        /\ ret = None
        /\ pc = "exiting" \/ Returned
        /\ \A p \in DOMAIN files : IsZip(files[p]) => p = uploaded_zip_path
        /\ final_zip_path \in DOMAIN files =>
                /\ "Manifest.zip" \in Members
                /\ files[final_zip_path] = upload.bytes.zip["Manifest.zip"]
        /\ Returned => (~tmp /\ DOMAIN files = {})

C3_Witness == vela.rc = "nonzero" /\ pc = "done"

\* C4: the compiler is invoked only for an archive that held both required
\* files; an archive lacking one ends in the missing-input error at the
\* validation step, naming the first missing file.
C4_NoCompilerWithoutRequiredInputs ==
    /\ (vela.rc # "not_run" \/ Did("RunVela")) =>
            {TfliteName, VarsHName} \subseteq Members
    /\ (Did("Validate") /\ ~({TfliteName, VarsHName} \subseteq Members)) =>
            /\ ret = Raise("FileNotFoundError",
                           IF TfliteName \notin Members
                           THEN "trained.tflite not found"
                           ELSE "model_variables.h not found")
            /\ PipelineSteps(steps)[Len(PipelineSteps(steps))] = "Validate"

C4_Witness ==
    /\ pc = "returned"
    /\ Did("Validate")
    /\ TfliteName \in Members
    /\ VarsHName \notin Members

\* A stage has failed: run_conversion raised or returned None, or the
\* compiler did not exit with 0.
Failed ==
    ret.kind \in {"raise", "None"} \/ vela.rc \in {"nonzero", "missing", "timeout"}

InOrder ==
    \E k \in 0..Len(PipelineOrder), j \in 0..Len(HandlerOrder) :
        /\ steps = SubSeq(PipelineOrder, 1, k) \o SubSeq(HandlerOrder, 1, j)
        /\ Succeeded => k = Len(PipelineOrder)
        /\ j > 0 => (Succeeded \/ Failed)

\* C5: the steps of a request happen in the one fixed order, each at most
\* once; a success has run them all; and from a state in which a stage has
\* failed onwards the failure stays, no further pipeline step is taken and no
\* file is created.
C5_FailFastSequential ==
    /\ []InOrder
    /\ [][Failed => /\ Failed'
                    /\ ret' = ret
                    /\ PipelineSteps(steps') = PipelineSteps(steps)
                    /\ DOMAIN files' \subseteq DOMAIN files]_vars

C5_Witness ==
    /\ pc = "done"
    /\ ret.kind = "raise"
    /\ ret.type = "RuntimeError"
    /\ PipelineSteps(steps) = SubSeq(PipelineOrder, 1, 8)

\* C6: whenever the pipeline succeeds, the Manifest.zip it made holds exactly
\* two files, Manifest/<model_name>-custom-<version>_vela.tflite and
\* Manifest/labels.txt, the latter being the labels joined by newline.
C6_ManifestZipHoldsExactlyTwoFiles ==
    (pc = "exiting" /\ Succeeded) =>
        /\ final_zip_path \in DOMAIN files
        /\ IsZip(files[final_zip_path])
        /\ DOMAIN files[final_zip_path].zip =
                {"Manifest/" \o container_name \o "_vela.tflite", "Manifest/labels.txt"}
        /\ files[final_zip_path].zip["Manifest/labels.txt"] = Data(join(labels, "\n"))

\* The uploaded filename without its last four characters, and how the
\* parser answered.
Base == SubSeq(upload.name, 1, Len(upload.name) - 4)
Accepted == Did("ParseName") /\ ret.kind # "raise"
Refused == Did("ParseName") /\ ret.kind = "raise" /\ ret.type = "ValueError"
AfterSep(i) == SubSeq(Base, i + Len(Sep), Len(Base))
BeforeSep(i) == SubSeq(Base, 1, i - 1)
IsFirstSep(i) == OccursAt(Base, Sep, i) /\ \A j \in 1..(i - 1) : ~OccursAt(Base, Sep, j)

\* C7 as stated: for every way to read the filename as <A>-custom-<B>.zip
\* with non-empty A and B the parser returns exactly (A, B); a filename not
\* ending in .zip, without the separator, or with an empty A or B is refused.
C7_ReturnsEveryDecomposition ==
    Did("ParseName") =>
        /\ \A i \in 1..Len(Base) :
              ( /\ endswith(upload.name, ".zip")
                /\ OccursAt(Base, Sep, i)
                /\ BeforeSep(i) # ""
                /\ AfterSep(i) # "" )
              => (Accepted /\ model_name = BeforeSep(i) /\ model_version = AfterSep(i))
        /\ ( \/ ~endswith(upload.name, ".zip")
             \/ \A i \in 1..Len(Base) : ~OccursAt(Base, Sep, i) )
              => Refused

\* C7 as amended: a filename ending in .zip whose base is cut by its FIRST
\* '-custom-' into a non-empty A and a non-empty B is accepted with exactly
\* (A, B); every other filename (no .zip suffix, no separator, or nothing
\* before or after the first separator) is refused with the invalid-name
\* error and yields no name and version.
C7_ReturnsFirstDecomposition ==
    Did("ParseName") =>
        IF /\ endswith(upload.name, ".zip")
           /\ \E i \in 1..Len(Base) :
                 IsFirstSep(i) /\ BeforeSep(i) # "" /\ AfterSep(i) # ""
        THEN /\ Accepted
             /\ \A i \in 1..Len(Base) :
                   IsFirstSep(i) => (model_name = BeforeSep(i) /\ model_version = AfterSep(i))
        ELSE Refused /\ model_name = "" /\ model_version = ""

C7_Witness ==
    upload.name = "widget-custom-v3.zip" /\ pc = "parsed" /\ model_name = "widget"

\* C8: an accepted filename is split at the first occurrence of '-custom-':
\* name, separator and version make up the base, and the separator occurs
\* nowhere before the end of the name; 'a-custom-b-custom-c.zip' gives name
\* 'a' and version 'b-custom-c'.
C8_SplitsOnFirstOccurrence ==
    /\ Accepted =>
          /\ model_name \o Sep \o model_version = Base
          /\ \A j \in 1..Len(model_name) : ~OccursAt(Base, Sep, j)
    /\ (Did("ParseName") /\ upload.name = "a-custom-b-custom-c.zip") =>
          (Accepted /\ model_name = "a" /\ model_version = "b-custom-c")

C8_Witness ==
    upload.name = "a-custom-b-custom-c.zip" /\ pc = "parsed"

\* The three candidate paths and the original input, as the claims name them.
CandVela == Join(work_dir, "trained_vela.tflite")
CandLegacy == Join(work_dir, "MOD00001.tfl")
CandGeneric == Join(work_dir, "output.tflite")
NoCandidate ==
    ~exists(files, CandVela) /\ ~exists(files, CandLegacy) /\ ~exists(files, CandGeneric)
Warned == \E i \in 1..Len(ui) : ui[i] = OverwriteWarning

\* C9: the path find_vela_output returns is the first existing one of
\* trained_vela.tflite, MOD00001.tfl, output.tflite; a later candidate, or
\* the original input, only when every earlier one is absent.
C9_FirstExistingCandidateWins ==
    pc = "resolved" =>
        /\ exists(files, CandVela) => vela_out = CandVela
        /\ (~exists(files, CandVela) /\ exists(files, CandLegacy)) => vela_out = CandLegacy
        /\ ( /\ ~exists(files, CandVela)
             /\ ~exists(files, CandLegacy)
             /\ exists(files, CandGeneric) ) => vela_out = CandGeneric
        /\ NoCandidate => vela_out = tflite_path

C9_Witness ==
    /\ pc = "resolved"
    /\ exists(files, CandVela)
    /\ exists(files, CandLegacy)
    /\ vela_out = CandVela

\* C10: right after find_vela_output, the original input is the result
\* exactly when no candidate exists and the original does, and exactly then
\* the overwrite warning has been shown; when neither a candidate nor the
\* original exists the call has raised FileNotFoundError carrying the three
\* candidates, and no warning was shown.
C10_OverwriteFallback ==
    LastStep = "ResolveOutput" =>
        /\ (pc = "resolved" /\ vela_out = tflite_path)
                <=> (NoCandidate /\ exists(files, tflite_path))
        /\ Warned <=> (pc = "resolved" /\ vela_out = tflite_path)
        /\ (NoCandidate /\ ~exists(files, tflite_path))
                <=> ( /\ pc = "exiting"
                      /\ ret.kind = "raise"
                      /\ ret.type = "FileNotFoundError"
                      /\ "tried" \in DOMAIN ret
                      /\ ret.tried = <<CandVela, CandLegacy, CandGeneric>> )

C10_Witness ==
    pc = "resolved" /\ vela_out = tflite_path /\ Warned /\ NoCandidate

\* What the user interface was told, by level and by the start of the text.
Said(level, prefix) ==
    \E i \in 1..Len(ui) : ui[i].level = level /\ startswith(ui[i].text, prefix)
SaidFailed == Said("error", "Vela conversion FAILED")
SaidToolMissing == Said("error", "Vela command not found")
SaidGeneric == Said("error", "An error occurred: ")
LastPipelineStep ==
    IF PipelineSteps(steps) = <<>> THEN ""
    ELSE PipelineSteps(steps)[Len(PipelineSteps(steps))]

\* C11: a compiler run that exceeds its timeout ends as a non-zero exit
\* does: the pipeline halts at the compilation stage, run_conversion hands
\* back the same result (None) with the same compilation-failure report and
\* no other error report, no Manifest.zip is produced, and the temporary
\* directory is torn down.
C11_TimeoutIsCompilationFailure ==
    (vela.rc = "timeout" /\ pc = "done") =>
        /\ LastPipelineStep = "RunVela"
        /\ ret = None
        /\ SaidFailed
        /\ ~SaidGeneric
        /\ ~Did("ZipManifest")
        /\ ~tmp

\* C12: every failure reaches the caller as an error from which the failing
\* stage is recovered: a run_conversion that stopped before its last stage
\* ended by raising, never by returning a value, and the kind and text of
\* the error name the stage that failed.
StageOfError(e) ==
    CASE e.type = "ValueError" -> "ParseName"
      [] e.type = "BadZipFile" -> "Extract"
      [] e.type = "FileNotFoundError" /\ endswith(e.msg, " not found") -> "Validate"
      [] e.type \in {"CalledProcessError", "TimeoutExpired"} -> "RunVela"
      [] e.type = "FileNotFoundError" /\ startswith(e.msg, "Vela command not found") -> "RunVela"
      [] e.type = "FileNotFoundError" /\ startswith(e.msg, "Could not find Vela output file") ->
            "ResolveOutput"
      [] e.type = "RuntimeError" -> "ExtractLabels"
      [] e.type = "FileNotFoundError" /\ startswith(e.msg, "Failed to create Manifest.zip") ->
            "ZipManifest"
      [] OTHER -> ""

C12_EveryFailureCarriesItsError ==
    (Returned /\ ~Succeeded) =>
        /\ ret.kind = "raise"
        /\ StageOfError(ret) = LastPipelineStep

\* C13: a compiler binary that is not found is reported as tool-missing and
\* not as a failed conversion, a non-zero exit is reported as a failed
\* conversion and not as tool-missing, and tool-missing is reported for no
\* other reason: the FileNotFoundError of the validation, of
\* find_vela_output and of the missing Manifest.zip leave run_conversion as
\* raised errors and are shown by the handler with their own text.
C13_ToolMissingIsItsOwnOutcome ==
    /\ (vela.rc = "missing") => (SaidToolMissing /\ ~SaidFailed)
    /\ (vela.rc = "nonzero") => (SaidFailed /\ ~SaidToolMissing)
    /\ SaidToolMissing => (vela.rc = "missing" /\ LastPipelineStep = "RunVela")
    /\ (ret.kind = "raise" /\ ret.type = "FileNotFoundError") =>
            /\ ~SaidToolMissing
            /\ LastPipelineStep \in {"Validate", "ResolveOutput", "ZipManifest"}
            /\ pc = "done" => Said("error", "An error occurred: " \o ret.msg)

C13_Witness ==
    /\ pc = "done"
    /\ ret.kind = "raise" /\ ret.type = "FileNotFoundError"
    /\ LastPipelineStep = "ResolveOutput"
    /\ ~SaidToolMissing

\* C17: safe_move moves: in the step that calls it, the destination ends up
\* holding what the source held, the source path is gone, a file that was at
\* the destination before is replaced, the destination's directory exists,
\* and every other file is as it was.
C17_SafeMoveMoves ==
    [][(pc = "resolved" /\ pc' = "moved") =>
            /\ vela_final_path \in DOMAIN files'
            /\ files'[vela_final_path] = files[vela_out]
            /\ ~exists(files', vela_out)
            /\ exists(files', work_dir)
            /\ DOMAIN files' = (DOMAIN files \ {vela_out}) \cup {vela_final_path}
            /\ \A p \in DOMAIN files' : p # vela_final_path => files'[p] = files[p]]_vars

\* The move has replaced a file the upload had put at the destination.
C17_Witness ==
    /\ pc = "moved"
    /\ "m-custom-1_vela.tflite" \in Members
    /\ files[vela_final_path] = Data("vela")
    /\ ~exists(files, vela_out)

\* The canonical model inside the returned archive.
PackagedModel == files[final_zip_path].zip[Join("Manifest", basename(vela_final_path))]
WroteNoCandidate == vela.rc = "ok" /\ vela.writes = {}
UploadedCandidate == "MOD00001.tfl" \in Members

\* C18 as stated: after a successful compiler run that left its input in
\* place find_vela_output never raises, and when the compiler wrote none of
\* the three candidate names the unmodified input trained.tflite is what is
\* moved to the canonical name and packaged as the compiled model.
C18_FallbackPackagesInput ==
    (vela.rc = "ok" /\ vela.input # "deleted") =>
        /\ ~(ret.kind = "raise" /\ LastPipelineStep = "ResolveOutput")
        /\ (WroteNoCandidate /\ vela.input = "kept") =>
            /\ pc = "resolved" => vela_out = tflite_path
            /\ pc = "moved" => files[vela_final_path] = Data("upload:trained.tflite")
            /\ (pc = "exiting" /\ Succeeded) =>
                    PackagedModel = Data("upload:trained.tflite")

\* C18 as amended: after a successful compiler run that left its input in
\* place find_vela_output never raises, and when no candidate name exists in
\* the work directory (the compiler wrote none and the upload held none) the
\* unmodified input trained.tflite is what is moved to the canonical name
\* and packaged as the compiled model; a candidate name the upload brought
\* along is taken in its place.
C18_OutputNotFoundUnreachable ==
    (vela.rc = "ok" /\ vela.input # "deleted") =>
        /\ ~(ret.kind = "raise" /\ LastPipelineStep = "ResolveOutput")
        /\ (WroteNoCandidate /\ vela.input = "kept" /\ ~UploadedCandidate) =>
            /\ pc = "resolved" => vela_out = tflite_path
            /\ pc = "moved" => files[vela_final_path] = Data("upload:trained.tflite")
            /\ (pc = "exiting" /\ Succeeded) =>
                    PackagedModel = Data("upload:trained.tflite")
        /\ (WroteNoCandidate /\ UploadedCandidate) =>
            /\ pc = "resolved" => vela_out = CandLegacy
            /\ pc = "moved" => files[vela_final_path] = Data("upload:MOD00001.tfl")
            /\ (pc = "exiting" /\ Succeeded) =>
                    PackagedModel = Data("upload:MOD00001.tfl")

C18_Witness ==
    /\ pc = "exiting" /\ Succeeded
    /\ WroteNoCandidate /\ vela.input = "kept" /\ ~UploadedCandidate
    /\ PackagedModel = Data("upload:trained.tflite")

\* The canonical model file name run_conversion derives from a filename the
\* parser accepts; "" for a filename it refuses.
CanonicalOf(name) ==
    LET r == parse_model_zip_name(Join(temp_dir, name))
    IN  IF r.kind = "ok"
        THEN r.modelname \o "-custom-" \o r.version \o "_vela.tflite"
        ELSE ""

\* Filenames an accepted filename is compared with.
CompareNames ==
    {A \o Sep \o B \o ".zip" : A \in Segments(1), B \in Segments(1)}
        \cup {"a-custom-b-custom-c.zip", "widget-custom-v3.zip", "a-custom-a.zip"}

\* C19: for an accepted filename the container name is the filename without
\* its '.zip', so the work directory is named by it and the canonical model
\* file is that name followed by '_vela.tflite'; another accepted filename
\* gives the same canonical name only when it has the same base name.
C19_NameRoundTrip ==
    Accepted =>
        /\ container_name = Base
        /\ Base \o ".zip" = upload.name
        /\ basename(work_dir) = Base
        /\ basename(vela_final_path) = Base \o "_vela.tflite"
        /\ CanonicalOf(upload.name) = basename(vela_final_path)
        /\ \A n \in CompareNames :
              CanonicalOf(n) = basename(vela_final_path) => n = upload.name

C19_Witness ==
    /\ pc = "parsed"
    /\ upload.name = "a-custom--custom-.zip"
    /\ model_name = "a" /\ model_version = "-custom-"
    /\ basename(vela_final_path) = "a-custom--custom-_vela.tflite"

\* The uploaded header, and the string literals of its declaration as a C
\* compiler reads them: a literal runs from a quote to the next quote that no
\* backslash precedes, and the initializer ends at the first "};" outside a
\* literal.
Header == upload.bytes.zip[VarsHName].data

RECURSIVE c_literals(_, _, _)
c_literals(s, i, open) ==
    IF i > Len(s) THEN <<>>
    ELSE IF open = 0
    THEN IF OccursAt(s, "};", i) THEN <<>>
         ELSE IF CharAt(s, i) = "\"" THEN c_literals(s, i + 1, i)
         ELSE c_literals(s, i + 1, 0)
    ELSE IF CharAt(s, i) = "\\" THEN c_literals(s, i + 2, open)
    ELSE IF CharAt(s, i) = "\""
    THEN <<SubSeq(s, open + 1, i - 1)>> \o c_literals(s, i + 1, 0)
    ELSE c_literals(s, i + 1, open)

HasDeclaration(h) == find(h, DeclName) # 0
DeclaredLiterals(h) ==
    IF ~HasDeclaration(h) THEN <<>>
    ELSE c_literals(h, find_from(h, "{", find(h, DeclName)) + 1, 0)

\* C15: for every header that holds the declaration with n >= 1 string
\* literals in its initializer, on one line or over several, the label
\* extraction succeeds and the labels are exactly the contents of those n
\* literals in their order.
C15_LabelsAreTheLiterals ==
    (Did("ExtractLabels") /\ HasDeclaration(Header) /\ Len(DeclaredLiterals(Header)) >= 1) =>
        /\ labels = DeclaredLiterals(Header)
        /\ ~(ret.kind = "raise" /\ ret.type = "RuntimeError")

\* C16: whenever labels.txt has been written or packaging has begun there
\* is at least one label and no label is the empty string; a header without
\* the declaration and a header whose declaration holds no string literal
\* both end in the same RuntimeError of the label extraction, with no
\* labels.txt written.
C16_LabelSetNonEmpty ==
    /\ (Did("WriteLabels") \/ Did("CopyManifest") \/ Did("ZipManifest")
            \/ exists(files, labels_txt_path)) =>
          /\ Len(labels) >= 1
          /\ \A i \in 1..Len(labels) : labels[i] # ""
    /\ (Did("ExtractLabels") /\ DeclaredLiterals(Header) = <<>>) =>
          /\ ret = Raise("RuntimeError", "No labels found in model_variables.h.")
          /\ LastPipelineStep = "ExtractLabels"
          /\ ~Did("WriteLabels")
          /\ ~exists(files, labels_txt_path)

\* A declaration with an empty initializer has ended the request.
C16_Witness ==
    /\ pc = "done"
    /\ HasDeclaration(Header)
    /\ DeclaredLiterals(Header) = <<>>
    /\ ret.kind = "raise" /\ ret.type = "RuntimeError"

\* What run_conversion gives for upload u in directory dir with nobody else
\* around, when the compiler does o: how it ends, the labels, the archive.
AloneRun(u, o, dir) ==
    LET zp == Join(dir, u.name)
        p == parse_model_zip_name(zp)
        cn == p.modelname \o "-custom-" \o p.version
        wd == Join(Join(dir, "work"), cn)
        tfl == Join(wd, "trained.tflite")
        vh == Join(Join(wd, "model-parameters"), "model_variables.h")
        final == Join(wd, cn \o "_vela.tflite")
        txt == Join(wd, "labels.txt")
        fs1 == extractall(WriteFile(NoFiles, zp, u.bytes), wd, u.bytes.zip)
        req == check_required(fs1, tfl, vh)
        found == find_vela_output(vela_writes(fs1, wd, tfl, o), wd, "trained.tflite")
        fs3 == safe_move(vela_writes(fs1, wd, tfl, o), found.path, final)
        ls == extract_labels(fs3[vh].data)
        fs4 == WriteFile(fs3, txt, Data(join(ls, "\n")))
        fs5 == WriteFile(WriteFile(fs4, Join(Join(wd, "Manifest"), cn \o "_vela.tflite"),
                                   fs4[final]),
                         Join(Join(wd, "Manifest"), "labels.txt"), fs4[txt])
        stop(r) == [ret |-> r, labels |-> <<>>, archive |-> None]
    IN  IF p.kind = "raise" THEN stop(p)
        ELSE IF ~IsZip(u.bytes) THEN stop(Raise("BadZipFile", "File is not a zip file"))
        ELSE IF req.kind = "raise" THEN stop(req)
        ELSE IF after_vela(o).pc = "exiting" THEN stop(after_vela(o).ret)
        ELSE IF found.kind = "raise" THEN stop(found)
        ELSE IF ls = <<>>
        THEN stop(Raise("RuntimeError", "No labels found in model_variables.h."))
        ELSE [ret |-> [kind |-> "path", path |-> Join(wd, "Manifest") \o ".zip"],
              labels |-> ls,
              archive |-> make_archive(fs5, wd, "Manifest")]

InOwnDir(p) == startswith(p, temp_dir \o "/")

\* The files the request is about to read are there, as it left them.
OwnFilesPresent ==
    /\ pc \in {"saved", "parsed", "extracted", "validated", "compiled", "resolved",
               "moved", "labelled", "labels_written", "copied", "exiting"} =>
            /\ tmp
            /\ uploaded_zip_path \in DOMAIN files
            /\ files[uploaded_zip_path] = upload.bytes
    /\ pc \in {"validated", "compiled", "resolved", "moved"} =>
            /\ vars_h_path \in DOMAIN files
            /\ files[vars_h_path] = upload.bytes.zip[VarsHName]
    /\ pc = "resolved" => vela_out \in DOMAIN files
    /\ pc \in {"moved", "labelled", "labels_written"} => vela_final_path \in DOMAIN files
    /\ pc = "labels_written" =>
            /\ labels_txt_path \in DOMAIN files
            /\ files[labels_txt_path] = Data(join(labels, "\n"))

EndsAsAlone ==
    (pc = "exiting" \/ Returned) =>
        /\ ret = AloneRun(upload, vela, temp_dir).ret
        /\ Succeeded => labels = AloneRun(upload, vela, temp_dir).labels
        /\ (pc = "exiting" /\ Succeeded) =>
                files[final_zip_path] = AloneRun(upload, vela, temp_dir).archive

\* C14: with a temporary directory of its own for each request and the steps
\* of two requests interleaved in any order, also for two uploads of the
\* same filename: a step of a request creates, changes and removes only
\* files inside its own temporary directory; the files a request is about to
\* read are there as it left them; and each request ends as it does when it
\* runs alone, with the same result, labels and archive.
C14_RequestsAreIsolated ==
    /\ [](OwnFilesPresent /\ EndsAsAlone)
    /\ [][me' = me =>
            \A p \in DOMAIN files \cup DOMAIN files' :
                ~InOwnDir(p) =>
                    (p \in DOMAIN files /\ p \in DOMAIN files' /\ files'[p] = files[p])]_vars

\* Two uploads of the same filename and different content, both past their
\* last stage at once, each with its own labels.
C14_Witness ==
    /\ peer # Absent
    /\ pc = "exiting" /\ Succeeded
    /\ peer.pc = "exiting" /\ peer.ret.kind = "path"
    /\ upload.name = peer.upload.name
    /\ labels = <<"cat">> /\ peer.labels = <<"dog", "cat">>
    /\ files[final_zip_path].zip["Manifest/labels.txt"] = Data("cat")

====
